---------------------------- MODULE Spec2Model ----------------------------
(***************************************************************************)
(* Lift traffic analysis engine of app.py: travel_time,                    *)
(* expected_stops_and_highest, run_lta_logic and the form that builds the  *)
(* inputs of run_lta_logic.                                                *)
(*                                                                         *)
(* Numbers are exact.  A Python number is modelled as a rational <<n, d>>  *)
(* in lowest terms with d > 0, and a value that may hold the square root   *)
(* of line 49 as r + c * sqrt(m) with m a squarefree integer (m = 1 and    *)
(* c = 0 for a rational).  Floating-point rounding error is not modelled.  *)
(***************************************************************************)
EXTENDS Integers, Sequences, FiniteSets, TLC

VARIABLES pc, args, ret, prev

vars == <<pc, args, ret, prev>>

None == [kind |-> "none"]

-----------------------------------------------------------------------------
(* Exact rational arithmetic *)

Abs(x) == IF x < 0 THEN -x ELSE x

RECURSIVE GCD(_, _)
GCD(a, b) == IF b = 0 THEN a ELSE GCD(b, a % b)

Rat(n, d) ==
    LET g == GCD(Abs(n), Abs(d))
        s == IF d < 0 THEN -1 ELSE 1
    IN  <<(s * n) \div g, (s * d) \div g>>

FromInt(n) == <<n, 1>>
Zero == FromInt(0)
One == FromInt(1)

RAdd(x, y) ==
    LET g == GCD(x[2], y[2])
    IN  Rat(x[1] * (y[2] \div g) + y[1] * (x[2] \div g), x[2] * (y[2] \div g))
RNeg(x) == <<-x[1], x[2]>>
RSub(x, y) == RAdd(x, RNeg(y))
RMul(x, y) ==
    LET g1 == GCD(Abs(x[1]), y[2])
        g2 == GCD(Abs(y[1]), x[2])
    IN  Rat((x[1] \div g1) * (y[1] \div g2), (x[2] \div g2) * (y[2] \div g1))
RInv(x) == Rat(x[2], x[1])
RDiv(x, y) == RMul(x, RInv(y))
RSign(x) == IF x[1] > 0 THEN 1 ELSE IF x[1] < 0 THEN -1 ELSE 0
RLt(x, y) == RSign(RSub(x, y)) < 0
RLe(x, y) == RSign(RSub(x, y)) <= 0

RECURSIVE RPow(_, _)
RPow(x, k) == IF k = 0 THEN One ELSE RMul(x, RPow(x, k - 1))

\* sum(s), the terms added from the first on
\* s[lo] + ... + s[hi]; the sum is exact, so the order of the additions is free
RECURSIVE RSumRange(_, _, _)
RSumRange(s, lo, hi) ==
    IF lo > hi THEN Zero
    ELSE IF lo = hi THEN s[lo]
    ELSE LET mid == (lo + hi) \div 2
         IN  RAdd(RSumRange(s, lo, mid), RSumRange(s, mid + 1, hi))
RSum(s) == RSumRange(s, 1, Len(s))

RFloor(x) == x[1] \div x[2]

-----------------------------------------------------------------------------
(* Values r + c * sqrt(m) *)

NaN == [nan |-> TRUE, r |-> Zero, c |-> Zero, m |-> 1]
Real(r, c, m) ==
    IF c = Zero \/ m = 1 THEN [nan |-> FALSE, r |-> RAdd(r, IF m = 1 THEN c ELSE Zero), c |-> Zero, m |-> 1]
    ELSE [nan |-> FALSE, r |-> r, c |-> c, m |-> m]
FromRat(q) == Real(q, Zero, 1)

\* the largest k with k*k dividing n, by trial division from f
RECURSIVE SquarePartFrom(_, _)
SquarePartFrom(n, f) ==
    IF f * f > n THEN 1
    ELSE IF n % (f * f) = 0 THEN f * SquarePartFrom(n \div (f * f), f)
    ELSE SquarePartFrom(n, f + 1)
SquarePart(n) == SquarePartFrom(n, 2)

\* np.sqrt: NaN on a negative argument, else for p/d in lowest terms with
\* p = kp*kp*mp and d = kd*kd*md:  sqrt(p/d) = kp/(kd*md) * sqrt(mp*md)
np_sqrt(q) ==
    IF q[1] < 0 THEN NaN
    ELSE IF q[1] = 0 THEN FromRat(Zero)
    ELSE LET kp == SquarePart(q[1])
             kd == SquarePart(q[2])
             mp == q[1] \div (kp * kp)
             md == q[2] \div (kd * kd)
         IN  Real(Zero, Rat(kp, kd * md), mp * md)

\* q * x and x + q for a rational q
Scale(q, x) == IF x.nan THEN NaN ELSE Real(RMul(q, x.r), RMul(q, x.c), x.m)
AddRat(x, q) == IF x.nan THEN NaN ELSE Real(RAdd(x.r, q), x.c, x.m)

\* the integer k with k*k <= n < (k+1)*(k+1), searched in lo..hi
RECURSIVE IsqrtBetween(_, _, _)
IsqrtBetween(n, lo, hi) ==
    IF hi - lo <= 1 THEN lo
    ELSE LET mid == (lo + hi) \div 2
         IN  IF mid * mid <= n THEN IsqrtBetween(n, mid, hi)
             ELSE IsqrtBetween(n, lo, mid)
Isqrt(n) == IsqrtBetween(n, 0, IF n < 46340 THEN n + 1 ELSE 46340)

\* sign of a/b - c/d for a, c >= 0 and b, d > 0, by continued fractions (no product
\* is formed, so none overflows)
RECURSIVE CmpFrac(_, _, _, _)
CmpFrac(a, b, c, d) ==
    LET qa == a \div b
        qc == c \div d
        ra == a % b
        rc == c % d
    IN  IF qa # qc THEN (IF qa < qc THEN -1 ELSE 1)
        ELSE IF ra = 0 /\ rc = 0 THEN 0
        ELSE IF ra = 0 THEN -1
        ELSE IF rc = 0 THEN 1
        ELSE CmpFrac(d, rc, b, ra)

\* sign of a/b - sqrt(n) for a >= 0, b > 0 and n not a square: the continued
\* fractions of a/b (Euclid) and of sqrt(n) (mk, dk, s as in the classical
\* recurrence) are compared quotient by quotient; flip is 1 at even positions
RECURSIVE CmpSqrtFrom(_, _, _, _, _, _, _)
CmpSqrtFrom(a, b, n, s, mk, dk, flip) ==
    IF b = 0 THEN flip
    ELSE LET qa == a \div b
             qs == (s + mk) \div dk
             mn == dk * qs - mk
         IN  IF qa # qs THEN (IF qa < qs THEN -flip ELSE flip)
             ELSE CmpSqrtFrom(b, a % b, n, s, mn, (n - mn * mn) \div dk, -flip)

\* sign of q*q - m for a rational q >= 0 and an integer m >= 1
CmpSquare(q, m) ==
    LET s == Isqrt(m)
    IN  IF s * s = m THEN CmpFrac(q[1], q[2], s, 1)
        ELSE CmpSqrtFrom(q[1], q[2], m, s, 0, 1, 1)

\* sign of r + c*sqrt(m)
Sign(x) ==
    LET sr == RSign(x.r)
        sc == RSign(x.c)
    IN  IF sc = 0 THEN sr
        ELSE IF sr = 0 THEN sc
        ELSE IF sr = sc THEN sr
        ELSE sr * CmpSquare(RDiv(<<Abs(x.r[1]), x.r[2]>>, <<Abs(x.c[1]), x.c[2]>>), x.m)
IsZero(x) == ~x.nan /\ Sign(x) = 0

\* q / x for x # 0.  With x = r + c*sqrt(m) and w = r - c*c*m/r (so that
\* r*r - c*c*m = r*w):  1/x = (r - c*sqrt(m)) / (r*w) = 1/w - (c/r)/w * sqrt(m)
RatOver(q, x) ==
    IF x.c = Zero THEN FromRat(RDiv(q, x.r))
    ELSE IF x.r = Zero THEN Real(Zero, RDiv(q, RMul(x.c, FromInt(x.m))), x.m)
    ELSE LET w == RSub(x.r, RDiv(RMul(RMul(x.c, x.c), FromInt(x.m)), x.r))
         IN  Real(RDiv(q, w), RNeg(RDiv(RMul(q, RDiv(x.c, x.r)), w)), x.m)

\* sign of a + u*sqrt(m) + v*sqrt(n)
SignTwo(a, u, m, v, n) ==
    LET um == RMul(RMul(u, u), FromInt(m))
        vn == RMul(RMul(v, v), FromInt(n))
        sw == IF RSign(u) = RSign(v) \/ RSign(v) = 0 THEN RSign(u)
              ELSE IF RSign(u) = 0 THEN RSign(v)
              ELSE IF RLt(vn, um) THEN RSign(u) ELSE RSign(v)
        sa == RSign(a)
        \* a*a - (u*sqrt(m) + v*sqrt(n))^2
        d == [nan |-> FALSE, r |-> RSub(RSub(RMul(a, a), um), vn),
              c |-> RNeg(RMul(FromInt(2), RMul(u, v))), m |-> m * n]
    IN  IF sa = 0 THEN sw
        ELSE IF sw = 0 \/ sw = sa THEN sa
        ELSE IF Sign(d) > 0 THEN sa ELSE sw

\* sign of x - y
Cmp(x, y) ==
    IF x.m = y.m \/ x.c = Zero \/ y.c = Zero
    THEN Sign(Real(RSub(x.r, y.r), RSub(x.c, y.c), IF x.c = Zero THEN y.m ELSE x.m))
    ELSE SignTwo(RSub(x.r, y.r), x.c, x.m, RNeg(y.c), y.m)
Less(x, y) == Cmp(x, y) < 0
LessEq(x, y) == Cmp(x, y) <= 0

\* the integer k with k <= x < k + 1, given lo <= x < hi
RECURSIVE FloorBetween(_, _, _)
FloorBetween(x, lo, hi) ==
    IF hi - lo <= 1 THEN lo
    ELSE LET mid == (lo + hi) \div 2
         IN  IF Sign(AddRat(x, FromInt(-mid))) >= 0 THEN FloorBetween(x, mid, hi)
             ELSE FloorBetween(x, lo, mid)

Floor(x) ==
    IF x.c = Zero THEN RFloor(x.r)
    ELSE LET s == Isqrt(x.m)
             a == RFloor(RAdd(x.r, RMul(x.c, FromInt(s))))
             b == RFloor(RAdd(x.r, RMul(x.c, FromInt(s + 1))))
         IN  FloorBetween(x, IF a < b THEN a ELSE b, (IF a < b THEN b ELSE a) + 1)

\* round(x, 2): the nearest multiple of 1/100, a tie going to the even one
round2(x) ==
    LET y == Scale(FromInt(100), x)
        f == Floor(y)
        half == Sign(AddRat(y, RSub(Rat(-1, 2), FromInt(f))))
        k == IF half < 0 THEN f
             ELSE IF half > 0 THEN f + 1
             ELSE IF f % 2 = 0 THEN f ELSE f + 1
    IN  Rat(k, 100)

-----------------------------------------------------------------------------
(* travel_time, app.py lines 43-53 *)

ZeroDivisionError == [kind |-> "ZeroDivisionError"]
\* a returned value, the branch that returned it and the arguments np.sqrt was given
Value(v, branch, sqrt_args) ==
    [kind |-> "value", v |-> v, branch |-> branch, sqrt_args |-> sqrt_args]

\* line 47
d_acc(speed, accel) == RDiv(RMul(speed, speed), RMul(FromInt(2), accel))

\* line 49
TriangularTime(distance, accel) == Scale(FromInt(2), np_sqrt(RDiv(distance, accel)))

\* TrapezoidalTime with the cruise distance short by one d_acc instead of two
TrapezoidalTimeOneRamp(distance, speed, accel) ==
    LET t_acc == RDiv(speed, accel)
        t_cruise == RDiv(RSub(distance, d_acc(speed, accel)), speed)
    IN  FromRat(RAdd(RMul(FromInt(2), t_acc), t_cruise))

\* lines 51-53
TrapezoidalTime(distance, speed, accel) ==
    LET t_acc == RDiv(speed, accel)
        t_cruise == RDiv(RSub(distance, RMul(FromInt(2), d_acc(speed, accel))), speed)
    IN  FromRat(RAdd(RMul(FromInt(2), t_acc), t_cruise))

\* ConstantSpeedCase without the test distance <= 0
ConstantSpeedCaseNoDistanceTest(distance, use_accel) == ~use_accel

\* line 45: which calls take the constant-speed return of line 46
ConstantSpeedCase(distance, use_accel) == ~use_accel \/ RSign(distance) <= 0

\* line 48
TriangularCase(distance, speed, accel) ==
    RLt(distance, RMul(FromInt(2), d_acc(speed, accel)))

travel_time(distance, speed, accel, jerk, use_accel) ==
    IF ConstantSpeedCase(distance, use_accel)
    THEN Value(FromRat(IF RSign(speed) > 0 THEN RDiv(distance, speed) ELSE Zero),
               "constant", <<>>)
    ELSE IF accel = Zero THEN ZeroDivisionError
    ELSE IF TriangularCase(distance, speed, accel)
    THEN Value(TriangularTime(distance, accel), "triangular", <<RDiv(distance, accel)>>)
    ELSE IF speed = Zero THEN ZeroDivisionError
    ELSE Value(TrapezoidalTime(distance, speed, accel), "trapezoidal", <<>>)


-----------------------------------------------------------------------------
(* expected_stops_and_highest, app.py lines 56-67 *)

\* line 60
prob_floor(pop_per_floor, total_passengers) ==
    [i \in 1..Len(pop_per_floor) |-> RDiv(pop_per_floor[i], FromInt(total_passengers))]

\* line 61, one term of the sum
StopTerm(prob, total_passengers) == RSub(One, RPow(RSub(One, prob), total_passengers))

\* HighestTerm taking the cumulative probability through floor i, not below it
HighestTermInclusive(cum_prob, prob, total_passengers) ==
    RSub(One, RPow(cum_prob, total_passengers))

\* line 66, one term of the sum; cum_prob already holds prob (line 65)
HighestTerm(cum_prob, prob, total_passengers) ==
    RSub(One, RPow(RSub(cum_prob, prob), total_passengers))

\* line 65: cum_prob after the iteration for floor index i
cum_prob_after(prob, i) == RSumRange(prob, 1, i)

\* lines 62-66: h_prob after the loop, the sum of the terms of every iteration
h_prob_loop(prob, total_passengers) ==
    RSum([i \in 1..Len(prob) |->
            HighestTerm(cum_prob_after(prob, i), prob[i], total_passengers)])

\* returns <<s_prob, h_prob>>
expected_stops_and_highest(pop_per_floor, total_passengers) ==
    IF total_passengers = 0 THEN <<Zero, Zero>>
    ELSE LET prob == prob_floor(pop_per_floor, total_passengers)
             s_prob == RSum([i \in 1..Len(prob) |-> StopTerm(prob[i], total_passengers)])
             h_prob == h_prob_loop(prob, total_passengers)
         IN  <<s_prob, h_prob>>

\* [P / n] * n, line 177
UniformPop(P, n) == [i \in 1..n |-> Rat(P, n)]

RECURSIVE SeqSumFrom(_, _, _)
SeqSumFrom(s, i, acc) == IF i > Len(s) THEN acc ELSE SeqSumFrom(s, i + 1, acc + s[i])
SeqSum(s) == SeqSumFrom(s, 1, 0)

\* sequences over S of length 0..n
RECURSIVE SeqsUpTo(_, _)
SeqsUpTo(S, n) ==
    IF n = 0 THEN {<<>>}
    ELSE LET shorter == SeqsUpTo(S, n - 1)
         IN  shorter \cup {Append(q, x) : q \in {t \in shorter : Len(t) = n - 1}, x \in S}

IntPop(counts) == [i \in 1..Len(counts) |-> FromInt(counts[i])]

-----------------------------------------------------------------------------
(* Calls of expected_stops_and_highest *)

OccMaxFloors == 3
OccMaxCount == 2
OccMaxPop == 5

OccArgs ==
    LET counted == {c \in SeqsUpTo(0..OccMaxCount, OccMaxFloors) : SeqSum(c) <= OccMaxPop}
    IN  UNION {{[fn |-> "expected_stops_and_highest", pop_per_floor |-> IntPop(c),
                 total_passengers |-> P] : P \in {0, SeqSum(c)}} : c \in counted}
        \cup {[fn |-> "expected_stops_and_highest", pop_per_floor |-> <<>>,
               total_passengers |-> P] : P \in 0..OccMaxPop}
        \cup {[fn |-> "expected_stops_and_highest", pop_per_floor |-> UniformPop(P, n),
               total_passengers |-> P] : P \in 1..OccMaxPop, n \in 1..OccMaxFloors}

InitOcc ==
    /\ pc = "call"
    /\ args \in OccArgs
    /\ ret = None
    /\ prev = None

CallExpectedStops ==
    /\ pc = "call"
    /\ args.fn = "expected_stops_and_highest"
    /\ ret' = expected_stops_and_highest(args.pop_per_floor, args.total_passengers)
    /\ pc' = "done"
    /\ UNCHANGED <<args, prev>>

NextOcc == CallExpectedStops

SpecOcc == InitOcc /\ [][NextOcc]_vars

\* the classical closed forms of the uniform case
ClosedFormS(n, P) ==
    RMul(FromInt(n), RSub(One, RPow(RSub(One, Rat(1, n)), P)))
ClosedFormH(n, P) ==
    RSub(FromInt(n), RSum([i \in 1..(n - 1) |-> RPow(Rat(i, n), P)]))

IsUniformCall(n, P) ==
    /\ args.fn = "expected_stops_and_highest"
    /\ args.total_passengers = P
    /\ args.pop_per_floor = UniformPop(P, n)

\* C5: for n >= 1 floors and an integer population P >= 1,
\* expected_stops_and_highest([P/n]*n, P) returns S = n(1-(1-1/n)^P) and
\* H = n - sum_{i=1}^{n-1} (i/n)^P, exactly.
UniformIdentity ==
    \A n \in 1..OccMaxFloors, P \in 1..OccMaxPop :
        (pc = "done" /\ IsUniformCall(n, P)) =>
            ret = <<ClosedFormS(n, P), ClosedFormH(n, P)>>

UniformIdentityWitness ==
    /\ pc = "done"
    /\ IsUniformCall(OccMaxFloors, OccMaxPop)
    /\ RLt(ret[2], FromInt(OccMaxFloors))
    /\ RLt(ret[1], ret[2])

-----------------------------------------------------------------------------
(* run_lta_logic, app.py lines 70-107 *)

\* the early return of line 86: nothing but s_prob and h_prob was computed
ZeroRecord == [kind |-> "metrics", degenerate |-> TRUE, locals |-> None]

\* IsDegenerate testing s_prob < 0
IsDegenerateNegative(s_prob) == RSign(s_prob) < 0

\* line 85
IsDegenerate(s_prob) == s_prob = Zero

\* line 88
travel_dist(h_prob, zone_start, floor_h) ==
    RMul(RMul(FromInt(2), RSub(h_prob, FromInt(zone_start))), floor_h)

\* lines 91-93
round_trip_time(travel_t, s_prob, door_cycle, p, tp) ==
    LET total_stops == RAdd(s_prob, One)
        passenger_time == RMul(FromInt(2 * p), tp)
    IN  AddRat(travel_t, RAdd(RMul(total_stops, door_cycle), passenger_time))

\* lines 95-99, given the rtt of line 93: the locals as they stand at the return
\* statement of line 101
metrics(inputs, sh, dist, travel_t, rtt) ==
    IF inputs.num_elevators = 0 THEN ZeroDivisionError
    ELSE LET interval == Scale(Rat(1, inputs.num_elevators), rtt)
             awt == Scale(Rat(7, 10), interval)
         IN  IF IsZero(interval) THEN ZeroDivisionError
             ELSE LET hc_persons ==
                          RatOver(RMul(RMul(inputs.car_capacity,
                                            FromInt(inputs.num_elevators)),
                                       FromInt(300)), interval)
                      hc_percent == IF inputs.target_pop > 0
                                    THEN Scale(Rat(100, inputs.target_pop), hc_persons)
                                    ELSE FromRat(Zero)
                  IN  [kind |-> "metrics", degenerate |-> FALSE,
                       locals |-> [s_prob |-> sh[1], h_prob |-> sh[2],
                                   travel_dist |-> dist, travel_t |-> travel_t,
                                   rtt |-> rtt, interval |-> interval, awt |-> awt,
                                   hc_percent |-> hc_percent,
                                   hc_persons |-> hc_persons]]

\* the dictionary run_lta_logic returns: the literal of line 86, or lines 101-107,
\* which round the locals of a result r of kind "metrics"
ReturnedRecord(r) ==
    IF r.degenerate
    THEN [RTT |-> Zero, Interval |-> Zero, AWT |-> Zero, HC |-> Zero, HC_persons |-> Zero]
    ELSE [RTT |-> round2(r.locals.rtt), Interval |-> round2(r.locals.interval),
          AWT |-> round2(r.locals.awt), HC |-> round2(r.locals.hc_percent),
          HC_persons |-> round2(r.locals.hc_persons)]

\* lines 70-99 and the early return of line 86; the result carries the locals, and
\* ReturnedRecord gives the dictionary handed to the caller
run_lta_logic(inputs) ==
    LET p == inputs.target_pop
        door_cycle == RAdd(RAdd(inputs.t_open, inputs.t_dwell), inputs.t_close)
        sh == expected_stops_and_highest(inputs.pop_per_floor, p)
    IN  IF IsDegenerate(sh[1]) THEN ZeroRecord
        ELSE LET dist == travel_dist(sh[2], inputs.zone_start_floor, inputs.floor_height)
                 tt == travel_time(dist, inputs.speed, inputs.acceleration, inputs.jerk,
                                   inputs.use_accel_model)
             IN  IF tt.kind # "value" THEN tt
                 ELSE metrics(inputs, sh, dist, tt.v,
                              round_trip_time(tt.v, sh[1], door_cycle, p,
                                              inputs.passenger_time))

\* the inputs dictionary of lines 211-227
Inputs(num_elevators, speed, car_capacity, floor_height, passenger_time, doors, zone_start_floor, target_pop, pop_per_floor, use_accel_model, acceleration) ==
    [fn |-> "run_lta_logic", num_elevators |-> num_elevators, speed |-> speed,
     car_capacity |-> car_capacity, floor_height |-> floor_height,
     passenger_time |-> passenger_time, t_open |-> doors[1], t_close |-> doors[2],
     t_dwell |-> doors[3], zone_start_floor |-> zone_start_floor,
     target_pop |-> target_pop, num_floors |-> Len(pop_per_floor),
     pop_per_floor |-> pop_per_floor, use_accel_model |-> use_accel_model,
     acceleration |-> acceleration, jerk |-> One]

-----------------------------------------------------------------------------
(* Calls of travel_time with arbitrary arguments *)

TTMaxNum == 2
TTMaxDen == 2

TTGrid == {Rat(n, d) : n \in (-TTMaxNum)..TTMaxNum, d \in 1..TTMaxDen}

\* the distance at which line 48 switches branch
BoundaryDistance(speed, accel) == RMul(FromInt(2), d_acc(speed, accel))

TTArgs ==
    UNION {{[fn |-> "travel_time", distance |-> d, speed |-> v, accel |-> a,
             jerk |-> One, use_accel |-> u] :
              d \in TTGrid \cup (IF a = Zero THEN {} ELSE {BoundaryDistance(v, a)}),
              u \in BOOLEAN} :
           v \in TTGrid, a \in TTGrid}

InitTT ==
    /\ pc = "call"
    /\ args \in TTArgs
    /\ ret = None
    /\ prev = None

CallTravelTime ==
    /\ pc = "call"
    /\ args.fn = "travel_time"
    /\ ret' = travel_time(args.distance, args.speed, args.accel, args.jerk, args.use_accel)
    /\ pc' = "done"
    /\ UNCHANGED <<args, prev>>

NextTT == CallTravelTime

SpecTT == InitTT /\ [][NextTT]_vars

AtBoundary ==
    /\ args.fn = "travel_time"
    /\ RSign(args.speed) > 0
    /\ RSign(args.accel) > 0
    /\ args.distance = BoundaryDistance(args.speed, args.accel)

\* C6: for speed > 0 and accel > 0, at distance = 2*d_acc = speed^2/accel the
\* triangular value 2*sqrt(distance/accel) and the trapezoidal value
\* 2*(speed/accel) + (distance - 2*d_acc)/speed are the same number, 2*speed/accel,
\* and it is the number travel_time returns there in kinematic mode.
KinematicContinuity ==
    AtBoundary =>
        /\ args.distance = RDiv(RMul(args.speed, args.speed), args.accel)
        /\ TriangularTime(args.distance, args.accel)
             = TrapezoidalTime(args.distance, args.speed, args.accel)
        /\ TriangularTime(args.distance, args.accel)
             = FromRat(RDiv(RMul(FromInt(2), args.speed), args.accel))
        /\ (pc = "done" /\ args.use_accel) =>
             /\ ret.kind = "value"
             /\ ret.v = TriangularTime(args.distance, args.accel)

KinematicContinuityWitness ==
    /\ AtBoundary
    /\ pc = "done"
    /\ args.use_accel
    /\ ret.kind = "value"
    /\ ret.branch = "trapezoidal"
    /\ args.speed # args.accel

\* C9: a call of travel_time that evaluates the square root of line 49 gives it an
\* argument >= 0, whatever the signs of distance, speed and accel, so no returned
\* value is NaN.
SqrtArgumentNonNegative ==
    (pc = "done" /\ args.fn = "travel_time" /\ ret.kind = "value") =>
        /\ \A i \in 1..Len(ret.sqrt_args) : RSign(ret.sqrt_args[i]) >= 0
        /\ ~ret.v.nan
        /\ ret.branch = "triangular" =>
             /\ Len(ret.sqrt_args) = 1
             /\ RSign(args.distance) > 0
             /\ RSign(args.accel) > 0

SqrtArgumentNonNegativeWitness ==
    /\ pc = "done"
    /\ args.fn = "travel_time"
    /\ ret.kind = "value"
    /\ ret.branch = "triangular"
    /\ ret.v.c # Zero
    /\ \E v \in TTGrid : RSign(v) < 0 /\ args.speed = v

-----------------------------------------------------------------------------
(* Calls of run_lta_logic with arbitrary requests, valid or not *)

RunMaxFloors == 2
RunMaxCount == 1
RunMaxPop == 2

RunLifts == {-1, 0, 1, 2}
RunSpeeds == {FromInt(-1), Zero, One, FromInt(2)}
RunAccels == {One, FromInt(2)}
RunDoors == {<<Zero, Zero, Zero>>, <<One, One, Zero>>, <<One, One, One>>}
RunTransfer == {Zero, One}
RunZoneStarts == {1, 2}

\* <<pop_per_floor, target_pop>>: whole counts of at most RunMaxPop people in all,
\* with their sum or 0 as the target, and no floor at all with any target
RunPopulations ==
    UNION {{<<IntPop(c), P>> : P \in {0, SeqSum(c)}} :
             c \in {q \in SeqsUpTo(0..RunMaxCount, RunMaxFloors) : SeqSum(q) <= RunMaxPop}}
    \cup {<<<<>>, P>> : P \in 0..RunMaxCount}

RunArgs ==
    {Inputs(N, v, FromInt(4), FromInt(3), tp, doors, zs, pp[2], pp[1], u, a) :
       N \in RunLifts, v \in RunSpeeds, tp \in RunTransfer, doors \in RunDoors,
       zs \in RunZoneStarts, pp \in RunPopulations, u \in BOOLEAN, a \in RunAccels}

InitRun ==
    /\ pc = "call"
    /\ args \in RunArgs
    /\ ret = None
    /\ prev = None

CallRunLtaLogic ==
    /\ pc = "call"
    /\ args.fn = "run_lta_logic"
    /\ ret' = run_lta_logic(args)
    /\ pc' = "done"
    /\ UNCHANGED <<args, prev>>

NextRun == CallRunLtaLogic

SpecRun == InitRun /\ [][NextRun]_vars

Returned == pc = "done" /\ args.fn = "run_lta_logic"

AllZero(r) ==
    /\ r.kind = "metrics"
    /\ ReturnedRecord(r).RTT = Zero
    /\ ReturnedRecord(r).Interval = Zero
    /\ ReturnedRecord(r).AWT = Zero
    /\ ReturnedRecord(r).HC = Zero
    /\ ReturnedRecord(r).HC_persons = Zero

\* C1: a call with target_pop = 0, or with no floor (pop_per_floor empty,
\* num_floors = 0), returns the record with RTT, Interval, AWT, HC and HC_persons
\* all 0 and does not raise, whatever the other inputs are.
DegenerateIsAllZero ==
    (Returned /\ (args.target_pop = 0 \/ args.num_floors = 0)) => AllZero(ret)

DegenerateIsAllZeroWitness ==
    /\ Returned
    /\ args.num_floors = 0
    /\ args.target_pop > 0
    /\ args.num_elevators = 0
    /\ RSign(args.speed) < 0
    /\ AllZero(ret)

\* the validated input domain of the data model
PositiveTimes(i) ==
    /\ RSign(i.t_open) >= 0 /\ RSign(i.t_close) >= 0 /\ RSign(i.t_dwell) >= 0
    /\ RSign(i.passenger_time) >= 0
PopulationReconciled(i) ==
    /\ \A k \in 1..Len(i.pop_per_floor) : RSign(i.pop_per_floor[k]) >= 0
    /\ RSum(i.pop_per_floor) = FromInt(i.target_pop)
    /\ i.target_pop >= 0
ValidRequest(i) ==
    /\ i.num_elevators >= 1
    /\ RSign(i.speed) > 0
    /\ RSign(i.acceleration) > 0
    /\ RSign(i.car_capacity) > 0
    /\ RSign(i.floor_height) > 0
    /\ i.zone_start_floor >= 1
    /\ PositiveTimes(i)
    /\ PopulationReconciled(i)

\* C2: on a valid request (num_elevators >= 1, speed, acceleration, car_capacity,
\* floor_height > 0, zone_start_floor >= 1, durations >= 0, nonnegative populations
\* summing to target_pop >= 0) run_lta_logic returns a metrics record and never
\* faults.
TotalOnValidDomain ==
    (Returned /\ ValidRequest(args)) => ret.kind = "metrics"

\* C3: a request with num_elevators <= 0 ends in an InvalidParameter failure: it
\* returns no metrics record and fails with no other error.
BadFleetIsInvalidParameter ==
    (Returned /\ args.num_elevators <= 0) => ret.kind = "InvalidParameter"

\* C4: a request with speed <= 0, otherwise valid, with target_pop > 0 and at least
\* one served floor, does not raise and returns the all-zero record, in
\* constant-speed and in kinematic mode.
NonPositiveSpeedIsAllZero ==
    (/\ Returned
     /\ RSign(args.speed) <= 0
     /\ ValidRequest([args EXCEPT !.speed = One])
     /\ args.target_pop > 0
     /\ args.num_floors >= 1) => AllZero(ret)

-----------------------------------------------------------------------------
(* Two requests that differ in one input: a first call of run_lta_logic on a
   valid request, then a second call with one input raised *)

PairMaxFloors == 3
PairMaxPop == 3
PairMaxLifts == 3
PairMaxDoorTime == 2

PairSpeeds == {One, FromInt(3)}
PairZoneStarts == {1, 2, 3}
PairDoorTimes == {FromInt(t) : t \in 0..PairMaxDoorTime}
PairTransfer == {Zero, One}

PairPopulations ==
    {<<UniformPop(P, n), P>> : P \in 0..PairMaxPop, n \in 1..PairMaxFloors}
    \cup {<<IntPop(c), SeqSum(c)>> :
            c \in {q \in SeqsUpTo(0..1, PairMaxFloors) : Len(q) = PairMaxFloors}}

PairArgs ==
    {Inputs(N, v, FromInt(4), FromInt(3), tp, <<open, close, Zero>>, zs, pp[2], pp[1], u, One) :
       N \in 1..(PairMaxLifts - 1), v \in PairSpeeds, tp \in PairTransfer,
       open \in {Zero, One}, close \in {Zero, One},
       zs \in PairZoneStarts, pp \in PairPopulations, u \in BOOLEAN}

InitPair ==
    /\ pc = "call"
    /\ args \in PairArgs
    /\ ret = None
    /\ prev = None

FirstRequest ==
    /\ pc = "call"
    /\ args.fn = "run_lta_logic"
    /\ ret' = run_lta_logic(args)
    /\ pc' = "done"
    /\ UNCHANGED <<args, prev>>

SecondRequest(changed, inputs) ==
    /\ pc = "done"
    /\ args' = inputs
    /\ ret' = run_lta_logic(inputs)
    /\ prev' = [kind |-> "request", changed |-> changed, args |-> args, ret |-> ret]
    /\ pc' = "again"

RaiseNumElevators ==
    \E N \in 1..PairMaxLifts :
        /\ N > args.num_elevators
        /\ SecondRequest("num_elevators", [args EXCEPT !.num_elevators = N])

RaiseOpen ==
    \E t \in PairDoorTimes :
        /\ RLt(args.t_open, t)
        /\ SecondRequest("t_open", [args EXCEPT !.t_open = t])

RaiseClose ==
    \E t \in PairDoorTimes :
        /\ RLt(args.t_close, t)
        /\ SecondRequest("t_close", [args EXCEPT !.t_close = t])

RaiseDwell ==
    \E t \in PairDoorTimes :
        /\ RLt(args.t_dwell, t)
        /\ SecondRequest("t_dwell", [args EXCEPT !.t_dwell = t])

RaisePopulation ==
    \E P \in 0..PairMaxPop :
        /\ args.num_floors >= 1
        /\ args.pop_per_floor = UniformPop(args.target_pop, args.num_floors)
        /\ P > args.target_pop
        /\ SecondRequest("target_pop",
                         [args EXCEPT !.target_pop = P,
                                      !.pop_per_floor = UniformPop(P, args.num_floors)])

NextPair ==
    \/ FirstRequest
    \/ RaiseNumElevators
    \/ RaiseOpen
    \/ RaiseClose
    \/ RaiseDwell
    \/ RaisePopulation

SpecPair == InitPair /\ [][NextPair]_vars

\* the RTT of a returned record before rounding: the rtt of line 93, or the
\* literal 0 of line 86
UnroundedRTT(r) == IF r.degenerate THEN FromRat(ReturnedRecord(r).RTT) ELSE r.locals.rtt

BothReturned(changed) ==
    /\ pc = "again"
    /\ prev.changed \in changed
    /\ prev.ret.kind = "metrics"
    /\ ret.kind = "metrics"

\* C7: of two valid requests that differ only in num_elevators, N1 < N2, both with
\* a non-degenerate result, the second has the strictly smaller unrounded Interval
\* and AWT and the strictly larger unrounded HC_persons, for every zone_start_floor.
FleetMonotonicity ==
    (/\ BothReturned({"num_elevators"})
     /\ ValidRequest(prev.args)
     /\ ~prev.ret.degenerate /\ ~ret.degenerate) =>
        /\ Less(ret.locals.interval, prev.ret.locals.interval)
        /\ Less(ret.locals.awt, prev.ret.locals.awt)
        /\ Less(prev.ret.locals.hc_persons, ret.locals.hc_persons)

\* C8: raising t_open, t_close or t_dwell alone never lowers the unrounded RTT, and
\* for a uniform distribution over a fixed number of floors raising the population
\* P never lowers it either, in constant-speed and in kinematic mode.
RttMonotonicity ==
    (/\ BothReturned({"t_open", "t_close", "t_dwell", "target_pop"})
     /\ ValidRequest(prev.args)) =>
        LessEq(UnroundedRTT(prev.ret), UnroundedRTT(ret))

-----------------------------------------------------------------------------
(* The form, app.py lines 155-229: every run of the script builds the inputs from
   the widgets and calls run_lta_logic *)

\* line 164
ZoningMinFloors == 35

\* lines 162-171; sky_lobby is the value of the number_input of line 167
zone_selection(form) ==
    IF form.total_floors >= ZoningMinFloors THEN form.zone_radio ELSE "Single Zone"
zone_start_floor(form) ==
    IF zone_selection(form) = "High Zone" THEN form.sky_lobby ELSE 1

\* line 176, the value the served-floors widget starts with
DefaultServedFloors(total_floors, zone, zone_start) ==
    IF zone = "Low Zone" THEN total_floors ELSE total_floors - zone_start + 1

\* lines 173-188: <<pop_per_floor, target_pop, served_floors>>
FormPopulation(form) ==
    IF form.pop_method = "Bulk"
    THEN <<UniformPop(form.target_pop, form.served_floors), form.target_pop,
           form.served_floors>>
    ELSE LET df_zone == SubSeq(form.pop_table, zone_start_floor(form), form.total_floors)
         IN  <<IntPop(df_zone), SeqSum(df_zone), Len(df_zone)>>

\* lines 211-227
FormInputs(form) ==
    LET pp == FormPopulation(form)
    IN  [Inputs(form.num_lifts, form.speed, form.car_capacity, form.floor_height,
                form.tp, <<form.t_open, form.t_close, form.t_dwell>>,
                zone_start_floor(form), pp[2], pp[1], form.use_accel,
                IF form.use_accel THEN form.accel ELSE One)
         EXCEPT !.num_floors = pp[3]]

FormMaxLowRise == 3
FormMaxExtraFloors == 1
FormMaxPop == 2

FormTotalFloors ==
    (1..FormMaxLowRise) \cup (ZoningMinFloors..(ZoningMinFloors + FormMaxExtraFloors))

\* line 170, the value the sky-lobby widget starts with
DefaultSkyLobby(total_floors) == (total_floors \div 2) + 1

\* <<zone_radio, sky_lobby>> as lines 164-171 allow them
FormZones(total_floors) ==
    IF total_floors < ZoningMinFloors THEN {<<"Single Zone", 1>>}
    ELSE {<<"Low Zone", 1>>}
         \cup {<<"High Zone", z>> : z \in {2, DefaultSkyLobby(total_floors), total_floors - 1}}

\* the table of line 181 with k people on floor f and nobody elsewhere (k = 0: the
\* table as created)
PopTable(total_floors, f, k) == [i \in 1..total_floors |-> IF i = f THEN k ELSE 0]

\* <<pop_method, target_pop, served_floors, pop_table>>
FormPopulations(total_floors, zone) ==
    {<<"Bulk", P, DefaultServedFloors(total_floors, zone[1], zone[2]), <<>>>> :
        P \in 1..FormMaxPop}
    \cup {<<"Individual Floor", 1, 1, PopTable(total_floors, f, k)>> :
            f \in 1..total_floors, k \in 0..FormMaxPop}

FormSpeeds == {Rat(1, 2), FromInt(2)}
FormDwell == {Zero, FromInt(3)}

Forms ==
    UNION {UNION {{[fn |-> "script", total_floors |-> T, floor_height |-> FromInt(2),
                    zone_radio |-> zone[1], sky_lobby |-> zone[2],
                    pop_method |-> pop[1], target_pop |-> pop[2],
                    served_floors |-> pop[3], pop_table |-> pop[4],
                    num_lifts |-> 2, speed |-> v, car_capacity |-> FromInt(4),
                    t_open |-> Rat(1, 2), t_close |-> Rat(1, 2), t_dwell |-> dwell,
                    tp |-> Rat(3, 10), use_accel |-> u, accel |-> Rat(1, 2)] :
                     pop \in FormPopulations(T, zone), v \in FormSpeeds,
                     dwell \in FormDwell, u \in BOOLEAN} :
                  zone \in FormZones(T)} :
           T \in FormTotalFloors}

InitForm ==
    /\ pc = "call"
    /\ args \in Forms
    /\ ret = None
    /\ prev = None

\* line 229
ScriptRun ==
    /\ pc = "call"
    /\ args.fn = "script"
    /\ ret' = [kind |-> "script", inputs |-> FormInputs(args),
               res |-> run_lta_logic(FormInputs(args))]
    /\ pc' = "done"
    /\ UNCHANGED <<args, prev>>

NextForm == ScriptRun

SpecForm == InitForm /\ [][NextForm]_vars

\* C10: for every request the form builds with target_pop > 0, the distance
\* 2*(H - zone_start_floor)*floor_height handed to travel_time is >= 0, so the
\* travel time is >= 0 and RTT > 0.
FormDistanceNonNegative ==
    (pc = "done" /\ args.fn = "script" /\ ret.inputs.target_pop > 0) =>
        /\ ret.res.kind = "metrics"
        /\ ~ret.res.degenerate
        /\ RSign(ret.res.locals.travel_dist) >= 0
        /\ Sign(ret.res.locals.travel_t) >= 0
        /\ Sign(ret.res.locals.rtt) > 0

=============================================================================
